---- MODULE Spec2Model ----
(***************************************************************************)
(* Model of scenarioFromOSM.py: the pipeline orchestrator (main), the      *)
(* parking-file merger (_merge_parking_files) and the configuration        *)
(* rewriter (_add_rou_to_default_sumocfg).                                  *)
(*                                                                         *)
(* Text is modelled as a sequence of tokens.  A file name, an argument or  *)
(* an attribute value is the concatenation of its tokens.  The token       *)
(* ".rou.xml" is the route-file marker, the token "," is the comma; every  *)
(* other token is a piece of text that holds no comma and no part of the   *)
(* marker, so `'.rou.xml' in item` is "the marker token occurs in item".   *)
(***************************************************************************)
EXTENDS Naturals, Sequences, FiniteSets

VARIABLES
    pc,                 \* the statement of main that runs next
    run,                \* number of the current invocation of the script
    workspace,          \* out_dir: file name -> content
    calls,              \* collaborators invoked in this run, in order
    writes,             \* files written in this run, in order
    hist,               \* the route_files text of each run that reached the rewriter
    cmd_args,           \* sys.argv[1:]
    osm_file,           \* args.osm_file
    left_hand_traffic,  \* args.left_hand_traffic
    profiling,          \* args.profiling
    profiler,           \* the cProfile profiler: off, enabled, or its report printed
    template,           \* content of defaults/osm.sumocfg
    ag_outputs          \* route files the mobility generator writes

vars == <<pc, run, workspace, calls, writes, hist, cmd_args, osm_file,
          left_hand_traffic, profiling, profiler, template, ag_outputs>>

\* ------------------------------------------------------------- bounds
MaxRuns == 2
MaxChildren == 2
MaxNameLen == 2
MaxListed == 2

\* ------------------------------------------------------------- text
Comma == ","
Marker == ".rou.xml"
Arg(s) == <<s>>

Range(s) == {s[i] : i \in 1..Len(s)}

SeqsUpTo(S, n) == UNION {[1..k -> S] : k \in 0..n}

RECURSIVE Flatten(_)
Flatten(ss) == IF ss = <<>> THEN <<>> ELSE Head(ss) \o Flatten(Tail(ss))

\* str.strip(','): drop every leading and every trailing comma.
RECURSIVE LStrip(_)
LStrip(s) == IF s # <<>> /\ Head(s) = Comma THEN LStrip(Tail(s)) ELSE s

RECURSIVE RStrip(_)
RStrip(s) ==
    IF s # <<>> /\ s[Len(s)] = Comma THEN RStrip(SubSeq(s, 1, Len(s) - 1)) ELSE s

Strip(s) == RStrip(LStrip(s))

\* ------------------------------------------------------------- file names
DEFAULT_NETCONVERT == <<"osm.netccfg">>
DEFAULT_NET_XML == <<"osm.net.xml">>
DEFAULT_PT_STOPS_XML == <<"osm_stops.add.xml">>
DEFAULT_PT_LINES == <<"osm_ptlines.xml">>
DEFAULT_SIDE_PARKING_XML == <<"osm_parking.xml">>
DEFAULT_PT_FLOWS == <<"osm_pt", Marker>>
DEFAULT_PARKING_AREAS == <<"osm_parking_areas.add.xml">>
DEFAULT_COMPLETE_PARKING_XML == <<"osm_complete_parking_areas.add.xml">>
DEFAULT_PARKING_REROUTERS_XML == <<"osm_parking_rerouters.add.xml">>
DEFAULT_POLY_XML == <<"osm_polygons.add.xml">>
DEFAULT_TAZ_OUTPUT_XML == <<"osm_taz.xml">>
DEFAULT_OD_OUTPUT_CSV == <<"osm_taz_weight.csv">>
DEFAULT_BUILDINGS_PREFIX == <<"buildings/osm_buildings">>
DEFAULT_ODMATRIX_AMITRAN_XML == <<"osm_odmatrix_amitran.xml">>
DEAFULT_GENERIC_AG_CONG == <<"activitygen.json">>
DEAFULT_SPECIFIC_AG_CONG == <<"osm_activitygen.json">>
DEFAULT_SUMOCFG == <<"osm.sumocfg">>
BASIC_VTYPE == <<"basic.vType.xml">>
DUAROUTER_SUMOCFG == <<"duarouter.sumocfg">>
BUILDINGS_DIR == <<"buildings">>

\* The files main copies from defaults/ into out_dir, in the order of the copies.
TemplateFiles ==
    <<DEAFULT_GENERIC_AG_CONG, BASIC_VTYPE, DUAROUTER_SUMOCFG,
      DEFAULT_NETCONVERT, DEFAULT_SUMOCFG>>

\* ------------------------------------------------------------- the command line
\* On the command line the text of an argument is spelled character by
\* character wherever the parser looks into it: the dashes, the letters of an
\* option, "=", " ", the digits, "." and the newline.  A file name may be one
\* piece.  A decimal digit outside ASCII is written by its code point.
Dash == "-"
Equals == "="
Space == " "
Dot == "."
NewLine == "\n"
AsciiDigits == {"0", "1", "2", "3", "4", "5", "6", "7", "8", "9"}

\* The other characters \d matches in a str pattern: Unicode category Nd.
OtherDecimalDigits ==
    { "U+0660", "U+0661", "U+0662", "U+0663", "U+0664", "U+0665", "U+0666", "U+0667",
      "U+0668", "U+0669", "U+06F0", "U+06F1", "U+06F2", "U+06F3", "U+06F4", "U+06F5",
      "U+06F6", "U+06F7", "U+06F8", "U+06F9", "U+07C0", "U+07C1", "U+07C2", "U+07C3",
      "U+07C4", "U+07C5", "U+07C6", "U+07C7", "U+07C8", "U+07C9", "U+0966", "U+0967",
      "U+0968", "U+0969", "U+096A", "U+096B", "U+096C", "U+096D", "U+096E", "U+096F",
      "U+09E6", "U+09E7", "U+09E8", "U+09E9", "U+09EA", "U+09EB", "U+09EC", "U+09ED",
      "U+09EE", "U+09EF", "U+0A66", "U+0A67", "U+0A68", "U+0A69", "U+0A6A", "U+0A6B",
      "U+0A6C", "U+0A6D", "U+0A6E", "U+0A6F", "U+0AE6", "U+0AE7", "U+0AE8", "U+0AE9",
      "U+0AEA", "U+0AEB", "U+0AEC", "U+0AED", "U+0AEE", "U+0AEF", "U+0B66", "U+0B67",
      "U+0B68", "U+0B69", "U+0B6A", "U+0B6B", "U+0B6C", "U+0B6D", "U+0B6E", "U+0B6F",
      "U+0BE6", "U+0BE7", "U+0BE8", "U+0BE9", "U+0BEA", "U+0BEB", "U+0BEC", "U+0BED",
      "U+0BEE", "U+0BEF", "U+0C66", "U+0C67", "U+0C68", "U+0C69", "U+0C6A", "U+0C6B",
      "U+0C6C", "U+0C6D", "U+0C6E", "U+0C6F", "U+0CE6", "U+0CE7", "U+0CE8", "U+0CE9",
      "U+0CEA", "U+0CEB", "U+0CEC", "U+0CED", "U+0CEE", "U+0CEF", "U+0D66", "U+0D67",
      "U+0D68", "U+0D69", "U+0D6A", "U+0D6B", "U+0D6C", "U+0D6D", "U+0D6E", "U+0D6F",
      "U+0DE6", "U+0DE7", "U+0DE8", "U+0DE9", "U+0DEA", "U+0DEB", "U+0DEC", "U+0DED",
      "U+0DEE", "U+0DEF", "U+0E50", "U+0E51", "U+0E52", "U+0E53", "U+0E54", "U+0E55",
      "U+0E56", "U+0E57", "U+0E58", "U+0E59", "U+0ED0", "U+0ED1", "U+0ED2", "U+0ED3",
      "U+0ED4", "U+0ED5", "U+0ED6", "U+0ED7", "U+0ED8", "U+0ED9", "U+0F20", "U+0F21",
      "U+0F22", "U+0F23", "U+0F24", "U+0F25", "U+0F26", "U+0F27", "U+0F28", "U+0F29",
      "U+1040", "U+1041", "U+1042", "U+1043", "U+1044", "U+1045", "U+1046", "U+1047",
      "U+1048", "U+1049", "U+1090", "U+1091", "U+1092", "U+1093", "U+1094", "U+1095",
      "U+1096", "U+1097", "U+1098", "U+1099", "U+17E0", "U+17E1", "U+17E2", "U+17E3",
      "U+17E4", "U+17E5", "U+17E6", "U+17E7", "U+17E8", "U+17E9", "U+1810", "U+1811",
      "U+1812", "U+1813", "U+1814", "U+1815", "U+1816", "U+1817", "U+1818", "U+1819",
      "U+1946", "U+1947", "U+1948", "U+1949", "U+194A", "U+194B", "U+194C", "U+194D",
      "U+194E", "U+194F", "U+19D0", "U+19D1", "U+19D2", "U+19D3", "U+19D4", "U+19D5",
      "U+19D6", "U+19D7", "U+19D8", "U+19D9", "U+1A80", "U+1A81", "U+1A82", "U+1A83",
      "U+1A84", "U+1A85", "U+1A86", "U+1A87", "U+1A88", "U+1A89", "U+1A90", "U+1A91",
      "U+1A92", "U+1A93", "U+1A94", "U+1A95", "U+1A96", "U+1A97", "U+1A98", "U+1A99",
      "U+1B50", "U+1B51", "U+1B52", "U+1B53", "U+1B54", "U+1B55", "U+1B56", "U+1B57",
      "U+1B58", "U+1B59", "U+1BB0", "U+1BB1", "U+1BB2", "U+1BB3", "U+1BB4", "U+1BB5",
      "U+1BB6", "U+1BB7", "U+1BB8", "U+1BB9", "U+1C40", "U+1C41", "U+1C42", "U+1C43",
      "U+1C44", "U+1C45", "U+1C46", "U+1C47", "U+1C48", "U+1C49", "U+1C50", "U+1C51",
      "U+1C52", "U+1C53", "U+1C54", "U+1C55", "U+1C56", "U+1C57", "U+1C58", "U+1C59",
      "U+A620", "U+A621", "U+A622", "U+A623", "U+A624", "U+A625", "U+A626", "U+A627",
      "U+A628", "U+A629", "U+A8D0", "U+A8D1", "U+A8D2", "U+A8D3", "U+A8D4", "U+A8D5",
      "U+A8D6", "U+A8D7", "U+A8D8", "U+A8D9", "U+A900", "U+A901", "U+A902", "U+A903",
      "U+A904", "U+A905", "U+A906", "U+A907", "U+A908", "U+A909", "U+A9D0", "U+A9D1",
      "U+A9D2", "U+A9D3", "U+A9D4", "U+A9D5", "U+A9D6", "U+A9D7", "U+A9D8", "U+A9D9",
      "U+A9F0", "U+A9F1", "U+A9F2", "U+A9F3", "U+A9F4", "U+A9F5", "U+A9F6", "U+A9F7",
      "U+A9F8", "U+A9F9", "U+AA50", "U+AA51", "U+AA52", "U+AA53", "U+AA54", "U+AA55",
      "U+AA56", "U+AA57", "U+AA58", "U+AA59", "U+ABF0", "U+ABF1", "U+ABF2", "U+ABF3",
      "U+ABF4", "U+ABF5", "U+ABF6", "U+ABF7", "U+ABF8", "U+ABF9", "U+FF10", "U+FF11",
      "U+FF12", "U+FF13", "U+FF14", "U+FF15", "U+FF16", "U+FF17", "U+FF18", "U+FF19",
      "U+104A0", "U+104A1", "U+104A2", "U+104A3", "U+104A4", "U+104A5", "U+104A6",
      "U+104A7", "U+104A8", "U+104A9", "U+10D30", "U+10D31", "U+10D32", "U+10D33",
      "U+10D34", "U+10D35", "U+10D36", "U+10D37", "U+10D38", "U+10D39", "U+11066",
      "U+11067", "U+11068", "U+11069", "U+1106A", "U+1106B", "U+1106C", "U+1106D",
      "U+1106E", "U+1106F", "U+110F0", "U+110F1", "U+110F2", "U+110F3", "U+110F4",
      "U+110F5", "U+110F6", "U+110F7", "U+110F8", "U+110F9", "U+11136", "U+11137",
      "U+11138", "U+11139", "U+1113A", "U+1113B", "U+1113C", "U+1113D", "U+1113E",
      "U+1113F", "U+111D0", "U+111D1", "U+111D2", "U+111D3", "U+111D4", "U+111D5",
      "U+111D6", "U+111D7", "U+111D8", "U+111D9", "U+112F0", "U+112F1", "U+112F2",
      "U+112F3", "U+112F4", "U+112F5", "U+112F6", "U+112F7", "U+112F8", "U+112F9",
      "U+11450", "U+11451", "U+11452", "U+11453", "U+11454", "U+11455", "U+11456",
      "U+11457", "U+11458", "U+11459", "U+114D0", "U+114D1", "U+114D2", "U+114D3",
      "U+114D4", "U+114D5", "U+114D6", "U+114D7", "U+114D8", "U+114D9", "U+11650",
      "U+11651", "U+11652", "U+11653", "U+11654", "U+11655", "U+11656", "U+11657",
      "U+11658", "U+11659", "U+116C0", "U+116C1", "U+116C2", "U+116C3", "U+116C4",
      "U+116C5", "U+116C6", "U+116C7", "U+116C8", "U+116C9", "U+11730", "U+11731",
      "U+11732", "U+11733", "U+11734", "U+11735", "U+11736", "U+11737", "U+11738",
      "U+11739", "U+118E0", "U+118E1", "U+118E2", "U+118E3", "U+118E4", "U+118E5",
      "U+118E6", "U+118E7", "U+118E8", "U+118E9", "U+11950", "U+11951", "U+11952",
      "U+11953", "U+11954", "U+11955", "U+11956", "U+11957", "U+11958", "U+11959",
      "U+11C50", "U+11C51", "U+11C52", "U+11C53", "U+11C54", "U+11C55", "U+11C56",
      "U+11C57", "U+11C58", "U+11C59", "U+11D50", "U+11D51", "U+11D52", "U+11D53",
      "U+11D54", "U+11D55", "U+11D56", "U+11D57", "U+11D58", "U+11D59", "U+11DA0",
      "U+11DA1", "U+11DA2", "U+11DA3", "U+11DA4", "U+11DA5", "U+11DA6", "U+11DA7",
      "U+11DA8", "U+11DA9", "U+16A60", "U+16A61", "U+16A62", "U+16A63", "U+16A64",
      "U+16A65", "U+16A66", "U+16A67", "U+16A68", "U+16A69", "U+16AC0", "U+16AC1",
      "U+16AC2", "U+16AC3", "U+16AC4", "U+16AC5", "U+16AC6", "U+16AC7", "U+16AC8",
      "U+16AC9", "U+16B50", "U+16B51", "U+16B52", "U+16B53", "U+16B54", "U+16B55",
      "U+16B56", "U+16B57", "U+16B58", "U+16B59", "U+1D7CE", "U+1D7CF", "U+1D7D0",
      "U+1D7D1", "U+1D7D2", "U+1D7D3", "U+1D7D4", "U+1D7D5", "U+1D7D6", "U+1D7D7",
      "U+1D7D8", "U+1D7D9", "U+1D7DA", "U+1D7DB", "U+1D7DC", "U+1D7DD", "U+1D7DE",
      "U+1D7DF", "U+1D7E0", "U+1D7E1", "U+1D7E2", "U+1D7E3", "U+1D7E4", "U+1D7E5",
      "U+1D7E6", "U+1D7E7", "U+1D7E8", "U+1D7E9", "U+1D7EA", "U+1D7EB", "U+1D7EC",
      "U+1D7ED", "U+1D7EE", "U+1D7EF", "U+1D7F0", "U+1D7F1", "U+1D7F2", "U+1D7F3",
      "U+1D7F4", "U+1D7F5", "U+1D7F6", "U+1D7F7", "U+1D7F8", "U+1D7F9", "U+1D7FA",
      "U+1D7FB", "U+1D7FC", "U+1D7FD", "U+1D7FE", "U+1D7FF", "U+1E140", "U+1E141",
      "U+1E142", "U+1E143", "U+1E144", "U+1E145", "U+1E146", "U+1E147", "U+1E148",
      "U+1E149", "U+1E2F0", "U+1E2F1", "U+1E2F2", "U+1E2F3", "U+1E2F4", "U+1E2F5",
      "U+1E2F6", "U+1E2F7", "U+1E2F8", "U+1E2F9", "U+1E950", "U+1E951", "U+1E952",
      "U+1E953", "U+1E954", "U+1E955", "U+1E956", "U+1E957", "U+1E958", "U+1E959",
      "U+1FBF0", "U+1FBF1", "U+1FBF2", "U+1FBF3", "U+1FBF4", "U+1FBF5", "U+1FBF6",
      "U+1FBF7", "U+1FBF8", "U+1FBF9" }

Digits == AsciiDigits \cup OtherDecimalDigits

\* The option strings of the parser: -h/--help come with ArgumentParser.
OPT_H == <<"-", "h">>
OPT_HELP == <<"-", "-", "h", "e", "l", "p">>
OPT_OSM == <<"-", "-", "o", "s", "m">>
OPT_OUT == <<"-", "-", "o", "u", "t">>
OPT_PROFILING == <<"-", "-", "p", "r", "o", "f", "i", "l", "i", "n", "g">>
OPT_NO_PROFILING ==
    <<"-", "-", "n", "o", "-", "p", "r", "o", "f", "i", "l", "i", "n", "g">>
OPT_LEFTHAND == <<"-", "-", "l", "e", "f", "t", "h", "a", "n", "d">>

OptionStrings ==
    {OPT_H, OPT_HELP, OPT_OSM, OPT_OUT, OPT_PROFILING, OPT_NO_PROFILING, OPT_LEFTHAND}

\* The options that take one argument (action 'store'); the others take none.
StoreOptions == {OPT_OSM, OPT_OUT}
HelpOptions == {OPT_H, OPT_HELP}

\* An optional value: empty for None, else the value wrapped.
None == <<>>
Some(x) == <<x>>

IsPrefix(p, s) == Len(p) <= Len(s) /\ SubSeq(s, 1, Len(p)) = p

\* arg_string.split('=', 1)
HasEquals(s) == Equals \in Range(s)
FirstEquals(s) ==
    CHOOSE i \in 1..Len(s) : s[i] = Equals /\ \A j \in 1..(i - 1) : s[j] # Equals
BeforeEquals(s) == SubSeq(s, 1, FirstEquals(s) - 1)
AfterEquals(s) == SubSeq(s, FirstEquals(s) + 1, Len(s))

\* '$' matches at the end of the text and before a newline that ends it.
BeforeFinalNewLine(s) ==
    IF s # <<>> /\ s[Len(s)] = NewLine THEN SubSeq(s, 1, Len(s) - 1) ELSE s

\* '^-\d+$|^-\d*\.\d+$'
IsNegativeNumber(arg_string) ==
    LET s == BeforeFinalNewLine(arg_string)
    IN  /\ Len(s) >= 2
        /\ s[1] = Dash
        /\ \/ \A i \in 2..Len(s) : s[i] \in Digits
           \/ \E k \in 2..(Len(s) - 1) :
                 /\ s[k] = Dot
                 /\ \A i \in 2..(k - 1) : s[i] \in Digits
                 /\ \A i \in (k + 1)..Len(s) : s[i] \in Digits

\* How the parser reads one argument: a positional 'A', an optional 'O' with
\* its option string (empty when no option matches) and the argument glued to
\* it, or an abbreviation that more than one option matches.
Positional == [kind |-> "A", option |-> <<>>, explicit_arg |-> None]
Optional(option, explicit_arg) ==
    [kind |-> "O", option |-> option, explicit_arg |-> explicit_arg]
Ambiguous == [kind |-> "ambiguous", option |-> <<>>, explicit_arg |-> None]
EndOfOptions == [kind |-> "-", option |-> <<>>, explicit_arg |-> None]

\* The options an abbreviation can stand for (allow_abbrev is on).
get_option_tuples(arg_string) ==
    IF arg_string[2] = Dash
    THEN LET option_prefix ==
                 IF HasEquals(arg_string) THEN BeforeEquals(arg_string) ELSE arg_string
             explicit_arg ==
                 IF HasEquals(arg_string) THEN Some(AfterEquals(arg_string)) ELSE None
         IN  {Optional(o, explicit_arg) :
                 o \in {x \in OptionStrings : IsPrefix(option_prefix, x)}}
    ELSE {Optional(o, Some(SubSeq(arg_string, 3, Len(arg_string)))) :
             o \in {x \in OptionStrings : x = SubSeq(arg_string, 1, 2)}}
         \cup
         {Optional(o, None) :
             o \in {x \in OptionStrings :
                       x # SubSeq(arg_string, 1, 2) /\ IsPrefix(arg_string, x)}}

parse_optional(arg_string) ==
    IF arg_string = <<>> THEN Positional
    ELSE IF arg_string[1] # Dash THEN Positional
    ELSE IF arg_string \in OptionStrings THEN Optional(arg_string, None)
    ELSE IF Len(arg_string) = 1 THEN Positional
    ELSE IF HasEquals(arg_string) /\ BeforeEquals(arg_string) \in OptionStrings
    THEN Optional(BeforeEquals(arg_string), Some(AfterEquals(arg_string)))
    ELSE LET option_tuples == get_option_tuples(arg_string)
         IN  IF Cardinality(option_tuples) > 1 THEN Ambiguous
             ELSE IF Cardinality(option_tuples) = 1
             THEN CHOOSE t \in option_tuples : TRUE
             ELSE IF IsNegativeNumber(arg_string) THEN Positional
             ELSE IF Space \in Range(arg_string) THEN Positional
             ELSE Optional(<<>>, None)

\* The pattern of the command line: after the first '--' every argument is a
\* positional.
arg_strings_pattern(arg_strings) ==
    LET marks == {i \in 1..Len(arg_strings) : arg_strings[i] = <<Dash, Dash>>}
        first == IF marks = {} THEN Len(arg_strings) + 1
                 ELSE CHOOSE i \in marks : \A j \in marks : i <= j
    IN  [i \in 1..Len(arg_strings) |->
            IF i = first THEN EndOfOptions
            ELSE IF i > first THEN Positional
            ELSE parse_optional(arg_strings[i])]

\* SystemExit(code): 0 after the help text, 2 after a usage error.
Exit(code) == [exit |-> code]

Defaults ==
    [osm_file |-> None, out_dir |-> None, profiling |-> FALSE,
     left_hand_traffic |-> FALSE]

\* The actions: store for --osm and --out, store_true for --profiling and
\* --lefthand, store_false for --no-profiling.
take_action(namespace, option, values) ==
    IF option = OPT_OSM THEN [namespace EXCEPT !.osm_file = Some(values)]
    ELSE IF option = OPT_OUT THEN [namespace EXCEPT !.out_dir = Some(values)]
    ELSE IF option = OPT_PROFILING THEN [namespace EXCEPT !.profiling = TRUE]
    ELSE IF option = OPT_NO_PROFILING THEN [namespace EXCEPT !.profiling = FALSE]
    ELSE [namespace EXCEPT !.left_hand_traffic = TRUE]

\* The options are consumed from left to right; an argument no option takes is
\* unrecognized.  At the end --osm and --out must have been given and nothing
\* may be left over.
RECURSIVE consume_optionals(_, _, _, _)
consume_optionals(arg_strings, start_index, namespace, extras) ==
    LET pattern == arg_strings_pattern(arg_strings)
        indices == {j \in start_index..Len(arg_strings) : pattern[j].kind = "O"}
    IN  IF indices = {}
        THEN IF \/ namespace.osm_file = None
                \/ namespace.out_dir = None
                \/ extras
                \/ start_index <= Len(arg_strings)
             THEN Exit(2)
             ELSE [osm_file |-> namespace.osm_file[1],
                   out_dir |-> namespace.out_dir[1],
                   profiling |-> namespace.profiling,
                   left_hand_traffic |-> namespace.left_hand_traffic]
        ELSE LET j == CHOOSE i \in indices : \A k \in indices : i <= k
                 option == pattern[j].option
                 explicit_arg == pattern[j].explicit_arg
                 skipped == extras \/ j > start_index
             IN  IF option = <<>>
                 THEN consume_optionals(arg_strings, j + 1, namespace, TRUE)
                 ELSE IF explicit_arg # None
                 THEN IF option \in StoreOptions
                      THEN consume_optionals(arg_strings, j + 1,
                               take_action(namespace, option, explicit_arg[1]), skipped)
                      ELSE IF /\ option[2] # Dash
                              /\ explicit_arg[1] # <<>>
                              /\ \A k \in 1..Len(explicit_arg[1]) :
                                    <<Dash, explicit_arg[1][k]>> \in HelpOptions
                      THEN Exit(0)
                      ELSE Exit(2)
                 ELSE IF option \in StoreOptions
                 THEN IF j + 1 <= Len(arg_strings) /\ pattern[j + 1].kind = "A"
                      THEN consume_optionals(arg_strings, j + 2,
                               take_action(namespace, option, arg_strings[j + 1]), skipped)
                      ELSE Exit(2)
                 ELSE IF option \in HelpOptions THEN Exit(0)
                 ELSE consume_optionals(arg_strings, j + 1,
                          take_action(namespace, option, <<>>), skipped)

\* parser.parse_args(cmd_args): the namespace, or the exit of the process.
get_options(args) ==
    IF \E i \in 1..Len(args) : arg_strings_pattern(args)[i].kind = "ambiguous"
    THEN Exit(2)
    ELSE consume_optionals(args, 1, Defaults, FALSE)

Exits(options) == "exit" \in DOMAIN options

\* The command lines the script is started with.  A path is the sequence of
\* its components.
MAP_PATH == <<"maps/", "map.osm">>
OUT_DIR == <<"out">>
CommandLines ==
    { <<OPT_OSM, MAP_PATH, OPT_OUT, OUT_DIR>>,
      <<OPT_OSM, MAP_PATH, OPT_OUT, OUT_DIR, OPT_LEFTHAND>>,
      <<OPT_OSM, <<"a.osm">>, OPT_OSM, MAP_PATH, OPT_OUT, OUT_DIR,
        <<"-", "-", "l", "e", "f", "t">> >>,
      <<OPT_OSM \o <<Equals, "city.osm">>, <<"-", "-", "o", "u">>, OUT_DIR,
        OPT_PROFILING>>,
      <<OPT_OSM, OPT_LEFTHAND, OPT_OUT, OUT_DIR>>,
      <<OPT_OSM, MAP_PATH, OPT_OUT, OUT_DIR, <<Dash, Dash>>, OPT_LEFTHAND>>,
      <<OPT_OSM, MAP_PATH, OPT_OUT, OUT_DIR, OPT_LEFTHAND \o <<Equals, "1">> >>,
      <<<<"-", "-", "o">>, MAP_PATH, OPT_OUT, OUT_DIR>>,
      <<OPT_OSM, MAP_PATH>>,
      <<OPT_OSM, MAP_PATH, OPT_OUT, OUT_DIR, OPT_HELP>> }

\* os.path.basename
Basename(path) == <<path[Len(path)]>>

\* What the mobility generator is configured to write: one or more route files.
AgOutputChoices ==
    { {<<"osm_activitygen", Marker>>},
      {<<"osm_activitygen", Marker>>, <<"osm_activitygen.merged", Marker>>} }

\* Names a directory may hold beside the pipeline's own: every text of at most
\* MaxNameLen tokens over a small alphabet.
NameTokens == {"a", Comma, Marker}
CandidateNames == SeqsUpTo(NameTokens, MaxNameLen) \ {<<>>}

\* ------------------------------------------------------------- contents
\* A directory maps the names of its entries to their contents.
Data == [kind |-> "data"]
Directory == [kind |-> "dir"]
Present(w, f) == f \in DOMAIN w
EmptyDir == [f \in {} |-> Data]

\* A parking additional file: the root element with its attributes and its
\* top-level children in document order.
ParkingChildIds == {"p1", "p2"}
SideRootAttribs == {[xsi |-> <<"additional_file.xsd">>], [xsi |-> <<"other.xsd">>]}
AreaRootAttribs == {[generated |-> <<"areas">>]}
AreaRootTags == {"additional", "parkingAreas"}
XmlDoc(tag, attrib, children) ==
    [kind |-> "xml", tag |-> tag, attrib |-> attrib, children |-> children]
SideParkingDocs ==
    { XmlDoc("additional", a, c) :
        a \in SideRootAttribs, c \in SeqsUpTo(ParkingChildIds, MaxChildren) }
ParkingAreaDocs ==
    { XmlDoc(t, a, c) :
        t \in AreaRootTags, a \in AreaRootAttribs,
        c \in SeqsUpTo(ParkingChildIds, MaxChildren) }
\* What the network converter and the parking locator write in a pipeline run.
PipelineSideDocs ==
    { XmlDoc("additional", [xsi |-> <<"additional_file.xsd">>], <<>>),
      XmlDoc("additional", [xsi |-> <<"additional_file.xsd">>], <<"p1">>) }
PipelineAreaDocs ==
    { XmlDoc("additional", [generated |-> <<"areas">>], <<"p2">>) }

\* A configuration document: its elements in document order (the order of
\* Element.iter), each with its depth in the tree, its tag and its attributes.
Elem(depth, tag, attrib) == [depth |-> depth, tag |-> tag, attrib |-> attrib]
CfgDoc(elems) == [kind |-> "cfg", elems |-> elems]
CfgHead ==
    <<Elem(0, "configuration", [xsi |-> <<"sumoConfiguration.xsd">>]),
      Elem(1, "input", <<>>),
      Elem(2, "net-file", [value |-> <<"osm.net.xml">>])>>
Templates ==
    { CfgDoc(CfgHead),
      CfgDoc(CfgHead \o <<Elem(2, "route-files", [value |-> <<>>])>>),
      CfgDoc(CfgHead \o <<Elem(2, "route-files", [value |-> DEFAULT_PT_FLOWS])>>),
      CfgDoc(CfgHead \o <<Elem(2, "route-files", [id |-> <<"r">>]),
                          Elem(1, "route-files", [value |-> <<"old">>])>>) }

\* ------------------------------------------------------------- argument vectors
\* A converter call whose test of the flag is inverted.
netconvert_options_inverted(filename, lefthand) ==
    LET base == <<Arg("netconvert"),
                  Arg("-c"), DEFAULT_NETCONVERT,
                  Arg("--osm"), filename,
                  Arg("-o"), DEFAULT_NET_XML,
                  Arg("--ptstop-output"), DEFAULT_PT_STOPS_XML,
                  Arg("--ptline-output"), DEFAULT_PT_LINES,
                  Arg("--parking-output"), DEFAULT_SIDE_PARKING_XML>>
    IN  IF ~lefthand THEN Append(base, Arg("--lefthand")) ELSE base

netconvert_options(filename, lefthand) ==
    LET base == <<Arg("netconvert"),
                  Arg("-c"), DEFAULT_NETCONVERT,
                  Arg("--osm"), filename,
                  Arg("-o"), DEFAULT_NET_XML,
                  Arg("--ptstop-output"), DEFAULT_PT_STOPS_XML,
                  Arg("--ptline-output"), DEFAULT_PT_LINES,
                  Arg("--parking-output"), DEFAULT_SIDE_PARKING_XML>>
    IN  IF lefthand THEN Append(base, Arg("--lefthand")) ELSE base

pt_flows_options ==
    <<Arg("-n"), DEFAULT_NET_XML, Arg("-e"), Arg("86400"), Arg("-p"), Arg("600"),
      Arg("--random-begin"), Arg("--seed"), Arg("42"),
      Arg("--ptstops"), DEFAULT_PT_STOPS_XML, Arg("--ptlines"), DEFAULT_PT_LINES,
      Arg("-o"), DEFAULT_PT_FLOWS, Arg("--ignore-errors"),
      Arg("--vtype-prefix"), Arg("pt_"), Arg("--verbose")>>

parking_options(filename) ==
    <<Arg("--osm"), filename, Arg("--net"), DEFAULT_NET_XML,
      Arg("--out"), DEFAULT_PARKING_AREAS>>

\* A merge that writes its result over its first input.
merge_arguments_in_place ==
    <<DEFAULT_SIDE_PARKING_XML, DEFAULT_PARKING_AREAS, DEFAULT_SIDE_PARKING_XML>>

\* The arguments main gives to _merge_parking_files.
merge_arguments ==
    <<DEFAULT_SIDE_PARKING_XML, DEFAULT_PARKING_AREAS, DEFAULT_COMPLETE_PARKING_XML>>

rerouters_options ==
    <<Arg("-a"), DEFAULT_COMPLETE_PARKING_XML, Arg("-n"), DEFAULT_NET_XML,
      Arg("--max-number-alternatives"), Arg("10"),
      Arg("--max-distance-alternatives"), Arg("1000.0"),
      Arg("--min-capacity-visibility-true"), Arg("50"),
      Arg("--max-distance-visibility-true"), Arg("1000.0"),
      Arg("-o"), DEFAULT_PARKING_REROUTERS_XML>>

polyconvert_options(filename) ==
    <<Arg("polyconvert"), Arg("--osm"), filename, Arg("--net"), DEFAULT_NET_XML,
      Arg("-o"), DEFAULT_POLY_XML>>

taz_buildings_options(filename) ==
    <<Arg("--osm"), filename, Arg("--net"), DEFAULT_NET_XML,
      Arg("--taz-output"), DEFAULT_TAZ_OUTPUT_XML,
      Arg("--od-output"), DEFAULT_OD_OUTPUT_CSV,
      Arg("--poly-output"), DEFAULT_BUILDINGS_PREFIX>>

odmatrix_options ==
    <<Arg("--taz-weights"), DEFAULT_OD_OUTPUT_CSV,
      Arg("--out"), DEFAULT_ODMATRIX_AMITRAN_XML, Arg("--density"), Arg("3000.0")>>

default_options ==
    <<Arg("--conf"), DEAFULT_GENERIC_AG_CONG,
      Arg("--od-amitran"), DEFAULT_ODMATRIX_AMITRAN_XML,
      Arg("--out"), DEAFULT_SPECIFIC_AG_CONG>>

activitygen_options == <<Arg("-c"), DEAFULT_SPECIFIC_AG_CONG>>

sumo_options == <<Arg("sumo"), Arg("-c"), DEFAULT_SUMOCFG>>

\* ------------------------------------------------------------- the order of main
\* A main that converts the polygons before it generates the rerouters.
SuccessorSwapped(stage) ==
    CASE stage = "init" -> "netconvert"
      [] stage = "netconvert" -> "ptlines2flows"
      [] stage = "ptlines2flows" -> "parking_areas"
      [] stage = "parking_areas" -> "merge"
      [] stage = "merge" -> "polyconvert"
      [] stage = "polyconvert" -> "rerouters"
      [] stage = "rerouters" -> "taz"
      [] stage = "taz" -> "amitran"
      [] stage = "amitran" -> "defaults"
      [] stage = "defaults" -> "activitygen"
      [] stage = "activitygen" -> "add_rou"
      [] stage = "add_rou" -> "sumo"
      [] stage = "sumo" -> "done"

\* The statement main runs after `stage` has returned.
Successor(stage) ==
    CASE stage = "init" -> "netconvert"
      [] stage = "netconvert" -> "ptlines2flows"
      [] stage = "ptlines2flows" -> "parking_areas"
      [] stage = "parking_areas" -> "merge"
      [] stage = "merge" -> "rerouters"
      [] stage = "rerouters" -> "polyconvert"
      [] stage = "polyconvert" -> "taz"
      [] stage = "taz" -> "amitran"
      [] stage = "amitran" -> "defaults"
      [] stage = "defaults" -> "activitygen"
      [] stage = "activitygen" -> "add_rou"
      [] stage = "add_rou" -> "sumo"
      [] stage = "sumo" -> "done"

\* ------------------------------------------------------------- collaborators
Call(stage, mode, argv, outcome) ==
    [stage |-> stage, mode |-> mode, argv |-> argv, outcome |-> outcome]

Written(stage, files) == [i \in 1..Len(files) |-> [by |-> stage, file |-> files[i]]]

\* The workspace after `files` have been written, each with the content given.
Store(w, content) ==
    [f \in DOMAIN w \cup DOMAIN content |->
        IF f \in DOMAIN content THEN content[f] ELSE w[f]]

AllData(files) == [f \in Range(files) |-> Data]

\* A subprocess call that checks the exit status (subprocess.check_call).
ProcessCallChecked(stage, argv, outputs, content) ==
    \E outcome \in {"ok", "nonzero", "oserror"} :
        /\ calls' = Append(calls, Call(stage, "process", argv, outcome))
        /\ pc' = IF outcome = "ok" THEN Successor(stage) ELSE "aborted"
        /\ IF outcome = "ok"
           THEN /\ workspace' = Store(workspace, content)
                /\ writes' = writes \o Written(stage, outputs)
           ELSE UNCHANGED <<workspace, writes>>

\* subprocess.call(argv): the exit status is dropped; a program that cannot be
\* started raises OSError.  A run that exits 0 has written its outputs.
ProcessCall(stage, argv, outputs, content) ==
    \E outcome \in {"ok", "nonzero", "oserror"} :
        /\ calls' = Append(calls, Call(stage, "process", argv, outcome))
        /\ pc' = IF outcome = "oserror" THEN "aborted" ELSE Successor(stage)
        /\ IF outcome = "ok"
           THEN /\ workspace' = Store(workspace, content)
                /\ writes' = writes \o Written(stage, outputs)
           ELSE UNCHANGED <<workspace, writes>>

\* module.main(argv): an exception leaves main; a call that returns has written
\* its outputs.
InProcessCall(stage, argv, outputs, content) ==
    \E outcome \in {"ok", "raise"} :
        /\ calls' = Append(calls, Call(stage, "inprocess", argv, outcome))
        /\ pc' = IF outcome = "raise" THEN "aborted" ELSE Successor(stage)
        /\ IF outcome = "ok"
           THEN /\ workspace' = Store(workspace, content)
                /\ writes' = writes \o Written(stage, outputs)
           ELSE UNCHANGED <<workspace, writes>>

Inputs == <<cmd_args, osm_file, left_hand_traffic, profiling, template, ag_outputs>>

\* ------------------------------------------------------------- the merger
\* A merger that skips a child the first document already holds.
merged_parking_dedup(side_parking_struct, parking_areas_struct) ==
    [side_parking_struct EXCEPT
        !.children = side_parking_struct.children \o
            SelectSeq(parking_areas_struct.children,
                      LAMBDA c : c \notin Range(side_parking_struct.children))]

\* The root of the first document with the children of the second appended.
merged_parking(side_parking_struct, parking_areas_struct) ==
    [side_parking_struct EXCEPT
        !.children = side_parking_struct.children \o parking_areas_struct.children]

\* ------------------------------------------------------------- the rewriter
\* A filter that compares the name with the marker instead of searching it.
IsRouteFileExact(item) == item = <<Marker>>

\* '.rou.xml' in item
IsRouteFile(item) == Marker \in Range(item)

\* The orders in which os.listdir() can give the entries that pass the filter:
\* the listing's order is arbitrary, and the filter keeps it.
Listings(w) ==
    LET items == {f \in DOMAIN w : IsRouteFile(f)}
    IN  {l \in [1..Cardinality(items) -> items] :
            \A i, j \in 1..Cardinality(items) : l[i] = l[j] => i = j}

\* route_files without the strip: the comma after the last item stays.
route_files_unstripped(listing) ==
    Flatten([i \in 1..Len(listing) |-> listing[i] \o <<Comma>>])

\* route_files after the loop and the strip.
route_files_of(listing) ==
    Strip(Flatten([i \in 1..Len(listing) |-> listing[i] \o <<Comma>>]))

\* A rewriter that adds the list to the value the element already has.
SetValueAccumulating(field, route_files) ==
    [field EXCEPT !.attrib =
        [a \in DOMAIN field.attrib \cup {"value"} |->
            IF a # "value" THEN field.attrib[a]
            ELSE IF "value" \in DOMAIN field.attrib /\ field.attrib["value"] # <<>>
                 THEN field.attrib["value"] \o <<Comma>> \o route_files
                 ELSE route_files]]

\* field.attrib['value'] = route_files
SetValue(field, route_files) ==
    [field EXCEPT !.attrib =
        [a \in DOMAIN field.attrib \cup {"value"} |->
            IF a = "value" THEN route_files ELSE field.attrib[a]]]

\* A rewriter that walks every element (iter() without the tag).
RewrittenEveryElement(xml_tree, route_files) ==
    [xml_tree EXCEPT !.elems =
        [i \in 1..Len(xml_tree.elems) |-> SetValue(xml_tree.elems[i], route_files)]]

\* for field in xml_tree.iter('route-files'): field.attrib['value'] = route_files
Rewritten(xml_tree, route_files) ==
    [xml_tree EXCEPT !.elems =
        [i \in 1..Len(xml_tree.elems) |->
            IF xml_tree.elems[i].tag = "route-files"
            THEN SetValue(xml_tree.elems[i], route_files)
            ELSE xml_tree.elems[i]]]

\* ------------------------------------------------------------- main
\* args = get_options(cmd_args): a usage error or --help ends the process
\* before main does anything; otherwise the profiler is enabled when
\* args.profiling is set.
ParseArguments ==
    /\ pc = "start"
    /\ LET args == get_options(cmd_args)
       IN  IF Exits(args)
           THEN /\ pc' = IF args.exit = 0 THEN "help" ELSE "usage_error"
                /\ UNCHANGED <<osm_file, left_hand_traffic, profiling, profiler>>
           ELSE /\ osm_file' = args.osm_file
                /\ left_hand_traffic' = args.left_hand_traffic
                /\ profiling' = args.profiling
                /\ profiler' = IF args.profiling THEN "enabled" ELSE "off"
                /\ pc' = "init"
    /\ UNCHANGED <<run, workspace, calls, writes, hist, cmd_args, template, ag_outputs>>

\* os.makedirs, the six copies and os.chdir.  A copy overwrites what is there;
\* a copy whose source is missing raises and main ends with the files copied
\* before it.  args.osm_file becomes its basename after the first copy.
WorkspaceInit ==
    /\ pc = "init"
    /\ \E copied \in 0..(Len(TemplateFiles) + 1) :
          LET files == SubSeq(<<Basename(osm_file)>> \o TemplateFiles, 1, copied)
          IN  /\ osm_file' = IF copied = 0 THEN osm_file ELSE Basename(osm_file)
              /\ workspace' = Store(workspace,
                     [f \in Range(files) |->
                         IF f = DEFAULT_SUMOCFG THEN template ELSE Data])
              /\ writes' = writes \o Written("init", files)
              /\ pc' = IF copied = Len(TemplateFiles) + 1
                       THEN Successor("init") ELSE "aborted"
    /\ UNCHANGED <<run, calls, hist, cmd_args, left_hand_traffic, profiling, profiler,
                   template, ag_outputs>>

CallNetconvert ==
    /\ pc = "netconvert"
    /\ \E side \in PipelineSideDocs :
          ProcessCall("netconvert", netconvert_options(osm_file, left_hand_traffic),
              <<DEFAULT_NET_XML, DEFAULT_PT_STOPS_XML, DEFAULT_PT_LINES,
                DEFAULT_SIDE_PARKING_XML>>,
              [f \in {DEFAULT_NET_XML, DEFAULT_PT_STOPS_XML, DEFAULT_PT_LINES,
                      DEFAULT_SIDE_PARKING_XML} |->
                  IF f = DEFAULT_SIDE_PARKING_XML THEN side ELSE Data])
    /\ UNCHANGED <<run, hist, profiler, Inputs>>

CallPtLinesToFlows ==
    /\ pc = "ptlines2flows"
    /\ InProcessCall("ptlines2flows", pt_flows_options,
           <<DEFAULT_PT_FLOWS>>, AllData(<<DEFAULT_PT_FLOWS>>))
    /\ UNCHANGED <<run, hist, profiler, Inputs>>

CallGenerateParkingAreasFromOsm ==
    /\ pc = "parking_areas"
    /\ \E areas \in PipelineAreaDocs :
          InProcessCall("parking_areas", parking_options(osm_file),
              <<DEFAULT_PARKING_AREAS>>,
              [f \in {DEFAULT_PARKING_AREAS} |-> areas])
    /\ UNCHANGED <<run, hist, profiler, Inputs>>

\* ElementTree.parse raises on a file that is not there; otherwise the merged
\* tree is written to complete_parking.
MergeParkingFiles ==
    /\ pc = "merge"
    /\ LET side_parking == merge_arguments[1]
           parking_areas == merge_arguments[2]
           complete_parking == merge_arguments[3]
           ok == Present(workspace, side_parking) /\ Present(workspace, parking_areas)
       IN  /\ calls' = Append(calls, Call("merge", "local", merge_arguments,
                                          IF ok THEN "ok" ELSE "raise"))
           /\ IF ok
              THEN /\ workspace' =
                        Store(workspace,
                            [f \in {complete_parking} |->
                                merged_parking(workspace[side_parking],
                                               workspace[parking_areas])])
                   /\ writes' = writes \o Written("merge", <<complete_parking>>)
                   /\ pc' = Successor("merge")
              ELSE /\ pc' = "aborted"
                   /\ UNCHANGED <<workspace, writes>>
    /\ UNCHANGED <<run, hist, profiler, Inputs>>

CallGenerateParkingAreaRerouters ==
    /\ pc = "rerouters"
    /\ InProcessCall("rerouters", rerouters_options,
           <<DEFAULT_PARKING_REROUTERS_XML>>, AllData(<<DEFAULT_PARKING_REROUTERS_XML>>))
    /\ UNCHANGED <<run, hist, profiler, Inputs>>

CallPolyconvert ==
    /\ pc = "polyconvert"
    /\ ProcessCall("polyconvert", polyconvert_options(osm_file),
           <<DEFAULT_POLY_XML>>, AllData(<<DEFAULT_POLY_XML>>))
    /\ UNCHANGED <<run, hist, profiler, Inputs>>

\* os.makedirs('buildings', exist_ok=True), then the extractor; its building
\* polygons go below buildings/.
CallGenerateTazBuildingsFromOsm ==
    /\ pc = "taz"
    /\ \E outcome \in {"ok", "raise"} :
          /\ calls' = Append(calls, Call("taz", "inprocess",
                                         taz_buildings_options(osm_file), outcome))
          /\ pc' = IF outcome = "raise" THEN "aborted" ELSE Successor("taz")
          /\ IF outcome = "ok"
             THEN /\ workspace' =
                       Store(workspace,
                           [f \in {BUILDINGS_DIR, DEFAULT_TAZ_OUTPUT_XML,
                                   DEFAULT_OD_OUTPUT_CSV} |->
                               IF f = BUILDINGS_DIR THEN Directory ELSE Data])
                  /\ writes' = writes \o
                       Written("taz", <<DEFAULT_TAZ_OUTPUT_XML, DEFAULT_OD_OUTPUT_CSV>>)
             ELSE /\ workspace' = Store(workspace, [f \in {BUILDINGS_DIR} |-> Directory])
                  /\ UNCHANGED writes
    /\ UNCHANGED <<run, hist, profiler, Inputs>>

CallGenerateAmitranFromTazWeights ==
    /\ pc = "amitran"
    /\ InProcessCall("amitran", odmatrix_options,
           <<DEFAULT_ODMATRIX_AMITRAN_XML>>, AllData(<<DEFAULT_ODMATRIX_AMITRAN_XML>>))
    /\ UNCHANGED <<run, hist, profiler, Inputs>>

CallGenerateDefaultsActivitygen ==
    /\ pc = "defaults"
    /\ InProcessCall("defaults", default_options,
           <<DEAFULT_SPECIFIC_AG_CONG>>, AllData(<<DEAFULT_SPECIFIC_AG_CONG>>))
    /\ UNCHANGED <<run, hist, profiler, Inputs>>

\* The route files of the mobility generator, written in some order.
CallActivitygen ==
    /\ pc = "activitygen"
    /\ LET outs == CHOOSE l \in [1..Cardinality(ag_outputs) -> ag_outputs] :
                       Range(l) = ag_outputs
       IN  InProcessCall("activitygen", activitygen_options, outs, AllData(outs))
    /\ UNCHANGED <<run, hist, profiler, Inputs>>

\* The listing, the join and the strip; then every route-files element gets the
\* value and the tree is written back over the configuration.
AddRouToDefaultSumocfg ==
    /\ pc = "add_rou"
    /\ \E listing \in Listings(workspace) :
          LET route_files == route_files_of(listing)
          IN  IF Present(workspace, DEFAULT_SUMOCFG)
              THEN /\ workspace' =
                        Store(workspace,
                            [f \in {DEFAULT_SUMOCFG} |->
                                Rewritten(workspace[DEFAULT_SUMOCFG], route_files)])
                   /\ writes' = writes \o Written("add_rou", <<DEFAULT_SUMOCFG>>)
                   /\ calls' = Append(calls, Call("add_rou", "local", <<>>, "ok"))
                   /\ hist' = Append(hist, [run |-> run, value |-> route_files])
                   /\ pc' = Successor("add_rou")
              ELSE /\ calls' = Append(calls, Call("add_rou", "local", <<>>, "raise"))
                   /\ pc' = "aborted"
                   /\ UNCHANGED <<workspace, writes, hist>>
    /\ UNCHANGED <<run, profiler, Inputs>>

\* The simulator, then the end of main: the profiler's report when profiling
\* is on, and 'Done.'.
CallSumo ==
    /\ pc = "sumo"
    /\ ProcessCall("sumo", sumo_options, <<>>, AllData(<<>>))
    /\ profiler' = IF pc' = "done" /\ profiling THEN "printed" ELSE profiler
    /\ UNCHANGED <<run, hist, Inputs>>

\* The script is started again, with the same arguments, on the same out_dir.
Rerun ==
    /\ pc \in {"done", "aborted", "help", "usage_error"}
    /\ run < MaxRuns
    /\ run' = run + 1
    /\ pc' = "start"
    /\ calls' = <<>>
    /\ writes' = <<>>
    /\ osm_file' = <<>>
    /\ left_hand_traffic' = FALSE
    /\ profiling' = FALSE
    /\ profiler' = "off"
    /\ UNCHANGED <<workspace, hist, cmd_args, template, ag_outputs>>

\* The process has been started and main has not yet parsed its arguments.
Init ==
    /\ pc = "start"
    /\ run = 1
    /\ workspace = EmptyDir
    /\ calls = <<>>
    /\ writes = <<>>
    /\ hist = <<>>
    /\ cmd_args \in CommandLines
    /\ osm_file = <<>>
    /\ left_hand_traffic = FALSE
    /\ profiling = FALSE
    /\ profiler = "off"
    /\ template \in Templates
    /\ ag_outputs \in AgOutputChoices

Next ==
    \/ ParseArguments
    \/ WorkspaceInit
    \/ CallNetconvert
    \/ CallPtLinesToFlows
    \/ CallGenerateParkingAreasFromOsm
    \/ MergeParkingFiles
    \/ CallGenerateParkingAreaRerouters
    \/ CallPolyconvert
    \/ CallGenerateTazBuildingsFromOsm
    \/ CallGenerateAmitranFromTazWeights
    \/ CallGenerateDefaultsActivitygen
    \/ CallActivitygen
    \/ AddRouToDefaultSumocfg
    \/ CallSumo
    \/ Rerun

Spec == Init /\ [][Next]_vars

\* ------------------------------------------------------------- the merger alone
\* _merge_parking_files called on a directory that holds two parking documents.
InitMerge ==
    /\ pc = "merge"
    /\ run = 1
    /\ \E side \in SideParkingDocs, areas \in ParkingAreaDocs :
          workspace = Store(EmptyDir,
              [f \in {DEFAULT_SIDE_PARKING_XML, DEFAULT_PARKING_AREAS} |->
                  IF f = DEFAULT_SIDE_PARKING_XML THEN side ELSE areas])
    /\ calls = <<>>
    /\ writes = <<>>
    /\ hist = <<>>
    /\ cmd_args = <<OPT_OSM, MAP_PATH, OPT_OUT, OUT_DIR>>
    /\ osm_file = Basename(get_options(cmd_args).osm_file)
    /\ left_hand_traffic = get_options(cmd_args).left_hand_traffic
    /\ profiling = get_options(cmd_args).profiling
    /\ profiler = "off"
    /\ template \in {CfgDoc(CfgHead)}
    /\ ag_outputs = {<<"osm_activitygen", Marker>>}

SpecMerge == InitMerge /\ [][MergeParkingFiles]_vars

\* ------------------------------------------------------------- the rewriter alone
\* _add_rou_to_default_sumocfg called on a directory that holds a configuration
\* and at most MaxListed other entries.
InitRewrite ==
    /\ pc = "add_rou"
    /\ run = 1
    /\ template \in Templates
    /\ \E listed \in SeqsUpTo(CandidateNames, MaxListed) :
          workspace = Store(EmptyDir,
              [f \in Range(listed) \cup {DEFAULT_SUMOCFG} |->
                  IF f = DEFAULT_SUMOCFG THEN template ELSE Data])
    /\ calls = <<>>
    /\ writes = <<>>
    /\ hist = <<>>
    /\ cmd_args = <<OPT_OSM, MAP_PATH, OPT_OUT, OUT_DIR>>
    /\ osm_file = Basename(get_options(cmd_args).osm_file)
    /\ left_hand_traffic = get_options(cmd_args).left_hand_traffic
    /\ profiling = get_options(cmd_args).profiling
    /\ profiler = "off"
    /\ ag_outputs = {<<"osm_activitygen", Marker>>}

SpecRewrite == InitRewrite /\ [][AddRouToDefaultSumocfg]_vars

\* ------------------------------------------------------------- claims
\* The entries of a comma-separated value, as str.split(',') gives them; the
\* empty text lists nothing.
RECURSIVE Split(_)
Split(s) ==
    IF \A i \in 1..Len(s) : s[i] # Comma THEN <<s>>
    ELSE LET k == CHOOSE i \in 1..Len(s) :
                     s[i] = Comma /\ \A j \in 1..(i - 1) : s[j] # Comma
         IN  <<SubSeq(s, 1, k - 1)>> \o Split(SubSeq(s, k + 1, Len(s)))

Entries(s) == IF s = <<>> THEN <<>> ELSE Split(s)

StageOrder ==
    <<"netconvert", "ptlines2flows", "parking_areas", "merge", "rerouters",
      "polyconvert", "taz", "amitran", "defaults", "activitygen", "add_rou", "sumo">>

StagesCalled == [i \in 1..Len(calls) |-> calls[i].stage]

\* C1: the collaborators are invoked one after the other in the order network
\* conversion, PT lines to flows, parking areas, parking merge, rerouters,
\* polygons, TAZ/buildings, OD matrix, activity-generator defaults, mobility
\* generation, Config Rewriter, simulator: at every moment the invocations so
\* far are a prefix of that order, and a run that reaches its end has made each
\* of them exactly once, the simulator last.
C1_StagesInOrder ==
    /\ Len(calls) <= Len(StageOrder)
    /\ StagesCalled = SubSeq(StageOrder, 1, Len(calls))
    /\ pc = "done" => StagesCalled = StageOrder

C1_Witness ==
    /\ pc = "done"
    /\ run = 2
    /\ Len(calls) = 12
    /\ calls[12].stage = "sumo"

\* The files a step reads, from the stage table and the argument vectors.
StageInputs(stage) ==
    CASE stage = "ptlines2flows" ->
             {DEFAULT_NET_XML, DEFAULT_PT_STOPS_XML, DEFAULT_PT_LINES}
      [] stage = "parking_areas" -> {osm_file, DEFAULT_NET_XML}
      [] stage = "merge" -> {DEFAULT_SIDE_PARKING_XML, DEFAULT_PARKING_AREAS}
      [] stage = "rerouters" -> {DEFAULT_COMPLETE_PARKING_XML, DEFAULT_NET_XML}
      [] stage = "polyconvert" -> {osm_file, DEFAULT_NET_XML}
      [] stage = "taz" -> {osm_file, DEFAULT_NET_XML}
      [] stage = "amitran" -> {DEFAULT_OD_OUTPUT_CSV}
      [] stage = "defaults" -> {DEAFULT_GENERIC_AG_CONG, DEFAULT_ODMATRIX_AMITRAN_XML}
      [] stage = "activitygen" -> {DEAFULT_SPECIFIC_AG_CONG}
      [] stage = "add_rou" -> {DEFAULT_SUMOCFG}
      [] stage = "sumo" -> {DEFAULT_SUMOCFG}
      [] OTHER -> {}

\* C2: whenever a stage 2..10, the Config Rewriter or the simulator is about to
\* be started, every input artifact the stage table lists for it is present in
\* the workspace, whatever the outcome of the earlier stages.
C2_InputsPresentAtStart ==
    \A f \in StageInputs(pc) : Present(workspace, f)

IsProcessFailure(c) == c.mode = "process" /\ c.outcome = "nonzero"
IsRaise(c) == c.outcome \in {"raise", "oserror"}

\* An in-process collaborator or the merge/rewrite step that raises ends the
\* run there: it is the last invocation, and what was written stays.
C3_RaiseAborts ==
    /\ \A i \in 1..Len(calls) :
          IsRaise(calls[i]) => i = Len(calls) /\ pc = "aborted"
    /\ \A i \in 1..Len(writes) : Present(workspace, writes[i].file)

\* C3 as stated: a run in which a process-mode collaborator exited non-zero
\* still invokes every later stage and reaches 'Done' (so it is never aborted),
\* and a raise of an in-process collaborator or of the merge/rewrite step ends
\* the run there with the written artifacts left in place.
C3_Original ==
    /\ (\E i \in 1..Len(calls) : IsProcessFailure(calls[i])) => pc # "aborted"
    /\ C3_RaiseAborts

\* C3 amended: a non-zero exit of a process-mode collaborator is ignored, the
\* statement that follows it in main is what runs next (the next stage after
\* stage 1 and stage 6, the end of main after the simulator), and a run is
\* aborted only by a step that raises; a raise of an in-process collaborator
\* or of the merge/rewrite step ends the run there, no later step is invoked
\* and the written artifacts stay in the workspace.  Before the first stage
\* only a copy of the workspace set-up that raises aborts the run.
C3_FailureModes ==
    /\ \A i \in 1..Len(calls) :
          IsProcessFailure(calls[i]) =>
              IF i < Len(calls)
              THEN calls[i + 1].stage = Successor(calls[i].stage)
              ELSE pc = Successor(calls[i].stage)
    /\ pc = "aborted" =>
          IF calls = <<>>
          THEN Len(writes) <= Len(TemplateFiles)
          ELSE IsRaise(calls[Len(calls)])
    /\ C3_RaiseAborts

C3_Witness ==
    /\ pc = "aborted"
    /\ \E i \in 1..Len(calls) : IsProcessFailure(calls[i]) /\ calls[i].stage = "polyconvert"
    /\ calls[Len(calls)].mode = "inprocess"
    /\ calls[Len(calls)].outcome = "raise"
    /\ \E i \in 1..Len(writes) : writes[i].by = "rerouters"

\* The merger has just returned.
MergeReturns == pc = "merge" /\ pc' = "rerouters"

\* C4: for two parking documents whose roots have m and n top-level children,
\* the merged document written by _merge_parking_files has a root with exactly
\* m+n children: the m children of the first document in their order, then the
\* n children of the second in their order, nothing dropped as a duplicate; the
\* root's tag and attributes are those of the first document.
C4_MergeAppendsChildren ==
    [][MergeReturns =>
        LET first == workspace[DEFAULT_SIDE_PARKING_XML]
            second == workspace[DEFAULT_PARKING_AREAS]
            merged == workspace'[DEFAULT_COMPLETE_PARKING_XML]
            m == Len(first.children)
            n == Len(second.children)
        IN  /\ Len(merged.children) = m + n
            /\ \A i \in 1..m : merged.children[i] = first.children[i]
            /\ \A j \in 1..n : merged.children[m + j] = second.children[j]
            /\ merged.tag = first.tag
            /\ merged.attrib = first.attrib]_vars

C4_Witness ==
    /\ pc = "rerouters"
    /\ Len(calls) = 1 /\ calls[1].stage = "merge" /\ calls[1].outcome = "ok"
    /\ workspace[DEFAULT_SIDE_PARKING_XML].children = <<"p1", "p2">>
    /\ workspace[DEFAULT_PARKING_AREAS].children = <<"p2", "p1">>
    /\ workspace[DEFAULT_PARKING_AREAS].tag # workspace[DEFAULT_SIDE_PARKING_XML].tag
    /\ workspace[DEFAULT_COMPLETE_PARKING_XML].children = <<"p1", "p2", "p2", "p1">>

\* The rewriter has just returned.
RewriteReturns == pc = "add_rou" /\ pc' = "sumo"

RouteFileNames(w) == {f \in DOMAIN w : Marker \in Range(f)}

Orderings(S) ==
    {l \in [1..Cardinality(S) -> S] : \A i, j \in 1..Cardinality(S) : l[i] = l[j] => i = j}

RECURSIVE CommaJoined(_)
CommaJoined(l) ==
    IF l = <<>> THEN <<>>
    ELSE IF Len(l) = 1 THEN l[1]
    ELSE l[1] \o <<Comma>> \o CommaJoined(Tail(l))

RouteFields(doc) == {i \in 1..Len(doc.elems) : doc.elems[i].tag = "route-files"}

\* The value is the names of the directory's route files, each once, joined by
\* commas in some order, with no comma at either end and no empty entry.
IsListOfRouteFiles(v, w) ==
    /\ \E l \in Orderings(RouteFileNames(w)) : v = CommaJoined(l)
    /\ v # <<>> => v[1] # Comma /\ v[Len(v)] # Comma
    /\ \A i \in 1..Len(Entries(v)) : Entries(v)[i] # <<>>
    /\ \A i, j \in 1..Len(Entries(v)) : Entries(v)[i] = Entries(v)[j] => i = j

\* Nothing but the 'value' attribute of the route-files elements differs.
OnlyRouteValuesDiffer(before, after) ==
    /\ after.kind = before.kind
    /\ Len(after.elems) = Len(before.elems)
    /\ \A i \in 1..Len(before.elems) :
          /\ after.elems[i].tag = before.elems[i].tag
          /\ after.elems[i].depth = before.elems[i].depth
          /\ i \notin RouteFields(before) => after.elems[i] = before.elems[i]
          /\ i \in RouteFields(before) =>
                /\ DOMAIN after.elems[i].attrib =
                       DOMAIN before.elems[i].attrib \cup {"value"}
                /\ \A a \in DOMAIN before.elems[i].attrib \ {"value"} :
                       after.elems[i].attrib[a] = before.elems[i].attrib[a]

RewriteWritesList ==
    LET before == workspace[DEFAULT_SUMOCFG]
        after == workspace'[DEFAULT_SUMOCFG]
    IN  /\ \A i \in RouteFields(after) :
              IsListOfRouteFiles(after.elems[i].attrib.value, workspace)
        /\ OnlyRouteValuesDiffer(before, after)

\* C5 as stated: for any content of the workspace, the value the Config
\* Rewriter writes into the route-files element is a comma-joined permutation of
\* exactly the names that contain '.rou.xml', with no leading or trailing comma,
\* no empty entry and no name twice; every other element and attribute of the
\* document is as before.
C5_Original == [][RewriteReturns => RewriteWritesList]_vars

\* C5 amended: the same, for any workspace in which no route-file name holds a
\* comma (the names are joined without escaping, and commas at the ends of the
\* joined text are stripped).
C5_RewriteListsRouteFiles ==
    [][RewriteReturns /\ (\A f \in RouteFileNames(workspace) : Comma \notin Range(f))
          => RewriteWritesList]_vars

C5_Witness ==
    /\ pc = "sumo"
    /\ RouteFileNames(workspace) = {<<"a", Marker>>, <<Marker, "a">>}
    /\ \E i \in RouteFields(workspace[DEFAULT_SUMOCFG]) :
          workspace[DEFAULT_SUMOCFG].elems[i].attrib.value =
              <<Marker, "a", Comma, "a", Marker>>

CfgWrites == SelectSeq(writes, LAMBDA e : e.by = "add_rou")

\* With exactly one route-files element, that element and no other is updated.
OneMatchUpdatesIt ==
    LET before == workspace[DEFAULT_SUMOCFG]
        after == workspace'[DEFAULT_SUMOCFG]
    IN  Cardinality(RouteFields(before)) = 1 =>
            /\ OnlyRouteValuesDiffer(before, after)
            /\ \A i \in RouteFields(before) :
                  \E l \in Listings(workspace) :
                      after.elems[i].attrib.value = route_files_of(l)

\* C6 as stated: with exactly one route-files element the rewriter updates that
\* element and no other; with none it completes without failing and performs no
\* write: the configuration file is not written to.
C6_Original ==
    [][pc = "add_rou" /\ pc' # pc =>
        /\ pc' = "sumo"
        /\ OneMatchUpdatesIt
        /\ RouteFields(workspace[DEFAULT_SUMOCFG]) = {} =>
              /\ workspace' = workspace
              /\ writes' = writes]_vars

\* C6 amended: with exactly one route-files element the rewriter updates that
\* element and no other; with none it completes without failing and changes no
\* element and no attribute, but it still writes the unchanged tree back over
\* the configuration file, once.
C6_RewriteByMatchCount ==
    [][pc = "add_rou" /\ pc' # pc =>
        /\ pc' = "sumo"
        /\ OneMatchUpdatesIt
        /\ RouteFields(workspace[DEFAULT_SUMOCFG]) = {} =>
              /\ workspace' = workspace
              /\ writes' = Append(writes, [by |-> "add_rou", file |-> DEFAULT_SUMOCFG])]_vars

C6_Witness ==
    /\ pc = "sumo"
    /\ RouteFields(workspace[DEFAULT_SUMOCFG]) = {}
    /\ RouteFileNames(workspace) # {}
    /\ Len(CfgWrites) = 1

RECURSIVE HasNoDuplicate(_)
HasNoDuplicate(l) ==
    l = <<>> \/ (Head(l) \notin Range(Tail(l)) /\ HasNoDuplicate(Tail(l)))

\* The rewriter has run in the current run.
Rewrote == \E i \in 1..Len(calls) : calls[i].stage = "add_rou" /\ calls[i].outcome = "ok"

RouteValues ==
    {workspace[DEFAULT_SUMOCFG].elems[i].attrib.value :
        i \in RouteFields(workspace[DEFAULT_SUMOCFG])}

\* C7: running the pipeline again into the same workspace, with the same
\* inputs and without clearing it, duplicates nothing in the route-file list:
\* after the rewrite of the k-th run every name is listed at most once, and the
\* names listed by a later run are those listed by the first.
C7_RerunListsEachFileOnce ==
    /\ Rewrote => \A v \in RouteValues : HasNoDuplicate(Entries(v))
    /\ \A i, j \in 1..Len(hist) :
          Range(Entries(hist[i].value)) = Range(Entries(hist[j].value))

C7_Witness ==
    /\ run = 2
    /\ pc = "done"
    /\ Len(hist) = 2 /\ hist[1].run = 1 /\ hist[2].run = 2
    /\ Len(Entries(hist[2].value)) = 3
    /\ hist[2].value # hist[1].value
    /\ template = CfgDoc(CfgHead \o <<Elem(2, "route-files", [value |-> DEFAULT_PT_FLOWS])>>)
    /\ RouteValues # {}

\* What each stage writes, from the stage table.
StageOutputs(stage) ==
    CASE stage = "init" -> {osm_file} \cup Range(TemplateFiles)
      [] stage = "netconvert" -> {DEFAULT_NET_XML, DEFAULT_PT_STOPS_XML,
                                  DEFAULT_PT_LINES, DEFAULT_SIDE_PARKING_XML}
      [] stage = "ptlines2flows" -> {DEFAULT_PT_FLOWS}
      [] stage = "parking_areas" -> {DEFAULT_PARKING_AREAS}
      [] stage = "merge" -> {DEFAULT_COMPLETE_PARKING_XML}
      [] stage = "rerouters" -> {DEFAULT_PARKING_REROUTERS_XML}
      [] stage = "polyconvert" -> {DEFAULT_POLY_XML}
      [] stage = "taz" -> {DEFAULT_TAZ_OUTPUT_XML, DEFAULT_OD_OUTPUT_CSV}
      [] stage = "amitran" -> {DEFAULT_ODMATRIX_AMITRAN_XML}
      [] stage = "defaults" -> {DEAFULT_SPECIFIC_AG_CONG}
      [] stage = "activitygen" -> ag_outputs
      [] stage = "add_rou" -> {DEFAULT_SUMOCFG}
      [] OTHER -> {}

WritersInOrder == <<"init">> \o SubSeq(StageOrder, 1, 11)

StageRank(stage) == CHOOSE k \in 1..Len(WritersInOrder) : WritersInOrder[k] = stage

AllSucceeded == \A i \in 1..Len(calls) : calls[i].outcome = "ok"

\* C8: in a run in which every stage succeeds, when the simulator is about to
\* be invoked the artifacts of the ten stages have been written in stage order
\* (each stage exactly its outputs of the stage table) and are in the
\* workspace, and the route-files value of the configuration is not empty: it
\* lists the PT route flows 'osm_pt.rou.xml' of stage 2.
C8_SuccessfulRun ==
    pc = "sumo" /\ AllSucceeded =>
        /\ \A i, j \in 1..Len(writes) :
              i < j => StageRank(writes[i].by) <= StageRank(writes[j].by)
        /\ \A k \in 1..Len(WritersInOrder) :
              {writes[i].file : i \in {n \in 1..Len(writes) :
                                          writes[n].by = WritersInOrder[k]}}
                  = StageOutputs(WritersInOrder[k])
        /\ \A k \in 1..Len(WritersInOrder) :
              \A f \in StageOutputs(WritersInOrder[k]) : Present(workspace, f)
        /\ \A v \in RouteValues : v # <<>> /\ DEFAULT_PT_FLOWS \in Range(Entries(v))

C8_Witness ==
    /\ pc = "sumo"
    /\ run = 1
    /\ AllSucceeded
    /\ Len(calls) = 11
    /\ RouteValues # {}

LeftHandMarker == Arg("--lefthand")

\* The argument vector of each collaborator, written out.
ExpectedArguments(stage, filename) ==
    CASE stage = "netconvert" ->
             <<<<"netconvert">>, <<"-c">>, <<"osm.netccfg">>, <<"--osm">>, filename,
               <<"-o">>, <<"osm.net.xml">>, <<"--ptstop-output">>,
               <<"osm_stops.add.xml">>, <<"--ptline-output">>, <<"osm_ptlines.xml">>,
               <<"--parking-output">>, <<"osm_parking.xml">> >>
      [] stage = "ptlines2flows" ->
             <<<<"-n">>, <<"osm.net.xml">>, <<"-e">>, <<"86400">>, <<"-p">>, <<"600">>,
               <<"--random-begin">>, <<"--seed">>, <<"42">>, <<"--ptstops">>,
               <<"osm_stops.add.xml">>, <<"--ptlines">>, <<"osm_ptlines.xml">>,
               <<"-o">>, <<"osm_pt", ".rou.xml">>, <<"--ignore-errors">>,
               <<"--vtype-prefix">>, <<"pt_">>, <<"--verbose">> >>
      [] stage = "parking_areas" ->
             <<<<"--osm">>, filename, <<"--net">>, <<"osm.net.xml">>, <<"--out">>,
               <<"osm_parking_areas.add.xml">> >>
      [] stage = "merge" ->
             <<<<"osm_parking.xml">>, <<"osm_parking_areas.add.xml">>,
               <<"osm_complete_parking_areas.add.xml">> >>
      [] stage = "rerouters" ->
             <<<<"-a">>, <<"osm_complete_parking_areas.add.xml">>, <<"-n">>,
               <<"osm.net.xml">>, <<"--max-number-alternatives">>, <<"10">>,
               <<"--max-distance-alternatives">>, <<"1000.0">>,
               <<"--min-capacity-visibility-true">>, <<"50">>,
               <<"--max-distance-visibility-true">>, <<"1000.0">>,
               <<"-o">>, <<"osm_parking_rerouters.add.xml">> >>
      [] stage = "polyconvert" ->
             <<<<"polyconvert">>, <<"--osm">>, filename, <<"--net">>,
               <<"osm.net.xml">>, <<"-o">>, <<"osm_polygons.add.xml">> >>
      [] stage = "taz" ->
             <<<<"--osm">>, filename, <<"--net">>, <<"osm.net.xml">>,
               <<"--taz-output">>, <<"osm_taz.xml">>, <<"--od-output">>,
               <<"osm_taz_weight.csv">>, <<"--poly-output">>,
               <<"buildings/osm_buildings">> >>
      [] stage = "amitran" ->
             <<<<"--taz-weights">>, <<"osm_taz_weight.csv">>, <<"--out">>,
               <<"osm_odmatrix_amitran.xml">>, <<"--density">>, <<"3000.0">> >>
      [] stage = "defaults" ->
             <<<<"--conf">>, <<"activitygen.json">>, <<"--od-amitran">>,
               <<"osm_odmatrix_amitran.xml">>, <<"--out">>, <<"osm_activitygen.json">> >>
      [] stage = "activitygen" -> <<<<"-c">>, <<"osm_activitygen.json">> >>
      [] stage = "add_rou" -> <<>>
      [] stage = "sumo" -> <<<<"sumo">>, <<"-c">>, <<"osm.sumocfg">> >>

\* An argument the parser reads as --lefthand: the option or an abbreviation.
AsksLeftHand(arg_string) == Len(arg_string) >= 3 /\ IsPrefix(arg_string, OPT_LEFTHAND)

\* C9: the argument vector of the network conversion holds '--lefthand' exactly
\* when the left-hand-traffic flag is set; the flag is unset by default, that
\* is, unless the command line asks for it; the other arguments of the network
\* conversion are the same for both values of the flag, and the argument
\* vector of every other stage does not depend on the flag.
C9_LeftHandMarker ==
    /\ left_hand_traffic => \E i \in 1..Len(cmd_args) : AsksLeftHand(cmd_args[i])
    /\ \A i \in 1..Len(calls) :
          LET c == calls[i]
          IN  IF c.stage = "netconvert"
              THEN /\ (LeftHandMarker \in Range(c.argv)) <=> left_hand_traffic
                   /\ SelectSeq(c.argv, LAMBDA a : a # LeftHandMarker)
                          = ExpectedArguments("netconvert", osm_file)
              ELSE c.argv = ExpectedArguments(c.stage, osm_file)

C9_Witness ==
    /\ left_hand_traffic
    /\ OPT_LEFTHAND \notin Range(cmd_args)
    /\ Len(calls) = 12
    /\ calls[1].stage = "netconvert"
    /\ calls[1].argv[Len(calls[1].argv)] = LeftHandMarker

\* Within a run a file is written once; only the configuration is written a
\* second time, by the rewriter, after the initial copy.
WrittenOnce ==
    \A i, j \in 1..Len(writes) :
        i < j /\ writes[i].file = writes[j].file =>
            /\ writes[i].file = DEFAULT_SUMOCFG
            /\ writes[i].by = "init"
            /\ writes[j].by = "add_rou"

\* The rewriter's one write lies after stage 10 and before the simulator.
CfgWrittenAtTheEnd ==
    /\ Len(CfgWrites) <= 1
    /\ CfgWrites # <<>> =>
          \E i \in 1..Len(calls) : calls[i].stage = "activitygen" /\ calls[i].outcome = "ok"
    /\ (\E i \in 1..Len(calls) : calls[i].stage = "sumo") =>
          Len(CfgWrites) = 1 /\ writes[Len(writes)].by = "add_rou"

\* The merger writes one new file and leaves its two inputs as they were.
MergeWritesNewFile ==
    MergeReturns =>
        /\ workspace'[DEFAULT_SIDE_PARKING_XML] = workspace[DEFAULT_SIDE_PARKING_XML]
        /\ workspace'[DEFAULT_PARKING_AREAS] = workspace[DEFAULT_PARKING_AREAS]
        /\ writes' = Append(writes, [by |-> "merge", file |-> DEFAULT_COMPLETE_PARKING_XML])
        /\ DEFAULT_COMPLETE_PARKING_XML \notin
               {DEFAULT_SIDE_PARKING_XML, DEFAULT_PARKING_AREAS}

\* C10: within one run every artifact file name is written by one stage and
\* not again after that stage has returned; the merger writes a new file,
\* distinct from its two inputs, which it leaves unchanged; the only file
\* written after its creation is the scenario configuration, written once, by
\* the Config Rewriter, after stage 10 and before the simulator starts.
C10_ArtifactsWrittenOnce ==
    [][MergeWritesNewFile /\ WrittenOnce' /\ CfgWrittenAtTheEnd']_vars

C10_Witness ==
    /\ pc = "done"
    /\ run = 2
    /\ Len(CfgWrites) = 1
    /\ \E i \in 1..Len(writes) : writes[i].by = "merge"
    /\ workspace[DEFAULT_COMPLETE_PARKING_XML].children = <<"p1", "p2">>
    /\ workspace[DEFAULT_SIDE_PARKING_XML].children = <<"p1">>
====
